---- MODULE Spec2Model ----
(***************************************************************************)
(* A model of the sluyspy package: the fit module (fit.py, with cli.error) *)
(* the environment record (env.py, solar_panels.py), the plot helpers      *)
(* (plot.py), wrap_line (text.py), where_am_i and temp_file_name           *)
(* (system.py) and the html file functions (html.py).                      *)
(*                                                                         *)
(* Conventions.  Python's None is the empty tuple and a value v that may   *)
(* be None is the one-element tuple <<v>>.  NumPy arrays are sequences of  *)
(* integers; quotients are kept exact as fractions [num, den].  Python     *)
(* strings are TLA+ strings.                                               *)
(***************************************************************************)
EXTENDS Integers, Sequences, FiniteSets, TLC

VARIABLES
    fcall,   \* fit.py: the call made last (function name and arguments)
    fres,    \* fit.py: what that call did (return value, exit, exception, output)
    ncall,   \* fit.py: number of calls made with the same argument objects
    os,      \* the host: host name, home directory, content of the configuration file
    cnt,     \* env.py: calls of environment() and the queries and file reads they made
    last_env, \* env.py: the record the last call of environment() returned
    sp_mod,  \* solar_panels.py: whether the module is imported, and its global env
    figs,    \* pyplot: the labels (window titles) of the open figures
    rc,      \* matplotlib.rcParams: font.size and lines.linewidth (in tenths)
    pc,      \* plot.py: where start_plot is: "idle", "test", "body", or "exited"
    loc,     \* plot.py: the arguments and local variables of the running start_plot
    pres,    \* plot.py: what the last call of start_plot or finish_plot did
    wl,      \* text.py: the arguments and local variables of wrap_line, and where it is
    wres,    \* text.py: what the last call of wrap_line did
    now,     \* the system clock, in microseconds
    hemel,   \* whether /home/hemel/ is a directory on this host
    sres,    \* system.py: what where_am_i returned, and the temp_file_name calls made
    fd,      \* html.py: the html file: its state, its lines and the operations on it
    hres     \* html.py: what the last call on the html file did

fitvars == <<fcall, fres, ncall>>
envvars == <<os, cnt, last_env, sp_mod>>
plotvars == <<figs, rc, pc, loc, pres>>
textvars == <<wl, wres>>
sysvars == <<now, hemel, sres>>
htmlvars == <<fd, hres>>

vars == <<fcall, fres, ncall, os, cnt, last_env, sp_mod, figs, rc, pc, loc, pres,
          wl, wres, now, hemel, sres, fd, hres>>

----------------------------------------------------------------------------
(* Python and NumPy primitives used by the code *)

None == <<>>
Some(v) == <<v>>
IsNone(o) == o = <<>>
Val(o) == o[1]

Abs(i) == IF i < 0 THEN -i ELSE i

\* a fraction num/den as NumPy's float division yields it; den = 0 stands for
\* the inf/nan NumPy returns (with a warning) for a division by zero
R(n, d) == [num |-> n, den |-> d]
RatAdd(a, b) == R(a.num * b.den + b.num * a.den, a.den * b.den)
RatSq(a) == R(a.num * a.num, a.den * a.den)
RatAbs(a) == R(Abs(a.num), Abs(a.den))
Sign(i) == IF i < 0 THEN -1 ELSE IF i > 0 THEN 1 ELSE 0
\* the same float value (inf and nan compared by kind)
RatEq(a, b) ==
    IF a.den = 0 \/ b.den = 0
    THEN a.den = 0 /\ b.den = 0 /\ Sign(a.num) = Sign(b.num)
    ELSE a.num * b.den = b.num * a.den
\* a <= b for fractions with positive denominators
RatLe(a, b) == a.num * b.den <= b.num * a.den

RECURSIVE RatSum(_)
RatSum(s) == IF s = <<>> THEN R(0, 1) ELSE RatAdd(Head(s), RatSum(Tail(s)))

\* a[m] for a boolean array m of the length of a
RECURSIVE BoolIndex(_, _)
BoolIndex(a, m) ==
    IF a = <<>> THEN <<>>
    ELSE (IF Head(m) THEN <<Head(a)>> ELSE <<>>) \o BoolIndex(Tail(a), Tail(m))

RECURSIVE Spaces(_)
Spaces(n) == IF n <= 0 THEN "" ELSE " " \o Spaces(n - 1)

\* Python's '%<width>s' % s: s right-justified in a field of width characters
FmtS(width, s) == Spaces(width - Len(s)) \o s

RECURSIVE MaxLenOf(_)
MaxLenOf(names) ==
    IF names = <<>> THEN 0
    ELSE LET r == MaxLenOf(Tail(names)) IN
         IF Len(Head(names)) >= r THEN Len(Head(names)) ELSE r

MaxOf(S) == CHOOSE m \in S : \A x \in S : x <= m

Range(s) == {s[i] : i \in 1..Len(s)}

\* the largest of a non-empty sequence of fractions with positive denominators
RatMaxOf(s) == CHOOSE m \in Range(s) : \A x \in Range(s) : RatLe(x, m)

\* numpy.sqrt on the perfect squares the model uses
Sqrt(v) == CHOOSE r \in 0..v : r * r = v

\* wrap_line is not running and has not been called
NoWrap == [pc |-> "idle", line |-> "", llen |-> 0, wlen |-> 0, indent |-> 0,
           i0 |-> 0, il |-> 0, dl |-> 0, wraps |-> 0]
NoWrapRes == [outcome |-> "none", value |-> None, args |-> None]

TextIdle ==
    /\ wl = NoWrap
    /\ wres = NoWrapRes

\* no call of system.py has been made
NoSysRes == [where |-> None, names |-> <<>>]

SysIdle ==
    /\ now = 0
    /\ hemel = FALSE
    /\ sres = NoSysRes

\* no html file has been created
NoFile == [state |-> "none", lines |-> <<>>, ops |-> <<>>]
NoHtmlRes == [fn |-> "none", outcome |-> "none"]

HtmlIdle ==
    /\ fd = NoFile
    /\ hres = NoHtmlRes

----------------------------------------------------------------------------
(* cli.py *)

\* error(message, exit_program=True, exit_code=1): what is written to stderr
\* (colour codes and blank lines left out) and whether and how the program exits
error_exit0(message, exit_program, exit_code) ==
    [stderr |-> "ERROR: " \o message \o (IF exit_program THEN ", aborting." ELSE ""),
     exited |-> exit_program,
     code   |-> 0]

error(message, exit_program, exit_code) ==
    [stderr |-> "ERROR: " \o message \o (IF exit_program THEN ", aborting." ELSE ""),
     exited |-> exit_program,
     code   |-> exit_code]

----------------------------------------------------------------------------
(* fit.py *)

\* numpy.poly1d(coefs)(x): coefficients with the highest power first
RECURSIVE poly1d(_, _)
poly1d(coefs, x) ==
    IF coefs = <<>> THEN 0
    ELSE poly1d(SubSeq(coefs, 1, Len(coefs) - 1), x) * x + coefs[Len(coefs)]

\* polynomial(x, *coefs): y = Sum_i coef_i x^i, the fit function of the model
RECURSIVE polynomial(_, _)
polynomial(x, coefs) ==
    IF coefs = <<>> THEN 0
    ELSE Head(coefs) + x * polynomial(x, Tail(coefs))

\* str(fittype)
StrOpt(o) == IF IsNone(o) THEN "None" ELSE Val(o)

\* print_fit_details, the dispatch on fittype: the error raised, or the fit values
FitValues(a) ==
    IF a.fittype = Some("np_polyfit") THEN
        [err  |-> None,
         yfit |-> Some([i \in 1..Len(Val(a.xvals)) |-> poly1d(Val(a.coefs), Val(a.xvals)[i])])]
    ELSE IF a.fittype = Some("scipy_curvefit") THEN
        IF IsNone(a.fit_fun) THEN
            [err  |-> Some(error("A fit function must be specified for fittype "
                                 \o StrOpt(a.fittype), TRUE, 1)),
             yfit |-> None]
        ELSE IF IsNone(a.coefs) THEN
            [err  |-> Some(error("Fit coefficients must be specified for fittype "
                                 \o StrOpt(a.fittype), TRUE, 1)),
             yfit |-> None]
        ELSE
            [err  |-> None,
             yfit |-> Some([i \in 1..Len(Val(a.xvals)) |->
                               polynomial(Val(a.xvals)[i], Val(a.coefs))])]
    ELSE IF IsNone(a.fittype) THEN
        IF IsNone(a.yfit) THEN
            [err  |-> Some(error("yfit values must be specified for fittype "
                                 \o StrOpt(a.fittype), TRUE, 1)),
             yfit |-> None]
        ELSE [err |-> None, yfit |-> a.yfit]
    ELSE
        [err  |-> Some(error("Unknown fittype: " \o Val(a.fittype)
                             \o "; must be one of \"np_polyfit\", \"scipy_curvefit\" or None.",
                             TRUE, 1)),
         yfit |-> None]

\* yvals*0 + 1
OnesLike(yvals) == [i \in 1..Len(yvals) |-> yvals[i] * 0 + 1]

\* the boolean array ysigmas > 0
SigmaMask_ge(ysigmas) == [i \in 1..Len(ysigmas) |-> ysigmas[i] >= 0]

SigmaMask(ysigmas) == [i \in 1..Len(ysigmas) |-> ysigmas[i] > 0]

\* print_fit_details: sigmas of 1 when none are given, otherwise the data
\* points with sigma > 0 only
Discard(xvals, yvals, yfit, ysigmas) ==
    IF IsNone(ysigmas) THEN
        [xvals |-> xvals, yvals |-> yvals, yfit |-> yfit, ysigmas |-> OnesLike(yvals)]
    ELSE
        LET m == SigmaMask(Val(ysigmas)) IN
        [xvals   |-> IF IsNone(xvals) THEN None ELSE Some(BoolIndex(Val(xvals), m)),
         yfit    |-> BoolIndex(yfit, m),
         yvals   |-> BoolIndex(yvals, m),
         ysigmas |-> BoolIndex(Val(ysigmas), m)]

\* the number of coefficients
NCoefs(coefs) == IF IsNone(coefs) THEN 0 ELSE Len(Val(coefs))

\* the differences yfit - yvals
YDiffs(yvals, yfit) == [i \in 1..Len(yvals) |-> yfit[i] - yvals[i]]

\* chi^2 = sum of the squared weighted residuals, and chi^2/(ndat - ncoefs)
ReducedChi2(yvals, yfit, ysigmas, ncoefs) ==
    LET ndat    == Len(yvals)
        ydiffs  == YDiffs(yvals, yfit)
        yresids == [i \in 1..ndat |-> R(ydiffs[i], ysigmas[i])]
        chi2    == RatSum([i \in 1..ndat |-> RatSq(yresids[i])])
    IN  R(chi2.num, chi2.den * (ndat - ncoefs))

\* the relative differences ydiffs[yvals!=0]/yvals[yvals!=0]
RelDiffs(yvals, ydiffs) ==
    LET nz == [i \in 1..Len(yvals) |-> yvals[i] # 0]
        dn == BoolIndex(ydiffs, nz)
        yn == BoolIndex(yvals, nz)
    IN  [i \in 1..Len(yn) |-> R(dn[i], yn[i])]

\* numpy.logical_and(left, right) of two one-dimensional boolean arrays:
\* element-wise, an array of length 1 is broadcast, other lengths do not combine
LogicalAnd(left, right) ==
    IF Len(left) = Len(right) THEN
        Some([i \in 1..Len(left) |-> left[i] /\ right[i]])
    ELSE IF Len(right) = 1 THEN
        Some([i \in 1..Len(left) |-> left[i] /\ right[1]])
    ELSE IF Len(left) = 1 THEN
        Some([i \in 1..Len(right) |-> left[1] /\ right[i]])
    ELSE None

NoMax == [exc |-> None, max_abs_diff_x |-> None, max_rel_diff_x |-> None,
          and_left |-> 0, and_right |-> 0, mask_abs |-> 0, mask_rel |-> 0, indexed |-> 0]

\* print_fit_details, verbosity > 2: the maximum absolute and relative
\* differences and the x values where they occur (NumPy arrays or None for xvals).
\* and_left, and_right: the lengths of the two operands of logical_and;
\* mask_abs, mask_rel: the lengths of the masks xvals is indexed with; indexed: len(xvals)
LocateMax(xvals, yvals, ydiffs) ==
    LET abs_abs_ydiffs == [i \in 1..Len(ydiffs) |-> Abs(ydiffs[i])]
        rel_ydiffs     == RelDiffs(yvals, ydiffs)
        abs_rel_ydiffs == [i \in 1..Len(rel_ydiffs) |-> RatAbs(rel_ydiffs[i])]
    IN
    IF Len(abs_abs_ydiffs) = 0 \/ Len(abs_rel_ydiffs) = 0 THEN
        \* numpy.max of an empty array
        [NoMax EXCEPT !.exc = Some("ValueError: zero-size array to reduction operation")]
    ELSE IF IsNone(xvals) THEN NoMax
    ELSE
        LET max_abs_diff_y == MaxOf(Range(abs_abs_ydiffs))
            max_rel_diff_y == RatMaxOf(abs_rel_ydiffs)
            mask_abs == [i \in 1..Len(abs_abs_ydiffs) |-> abs_abs_ydiffs[i] = max_abs_diff_y]
            left     == [i \in 1..Len(yvals) |-> yvals[i] # 0]
            right    == [i \in 1..Len(abs_rel_ydiffs) |->
                            RatEq(abs_rel_ydiffs[i], max_rel_diff_y)]
            mask_rel == LogicalAnd(left, right)
        IN
        IF IsNone(mask_rel) THEN
            [NoMax EXCEPT !.exc = Some("ValueError: operands could not be broadcast together"),
                          !.max_abs_diff_x = Some(BoolIndex(Val(xvals), mask_abs)[1]),
                          !.and_left = Len(left), !.and_right = Len(right),
                          !.mask_abs = Len(mask_abs), !.indexed = Len(Val(xvals))]
        ELSE
            [exc |-> None,
             max_abs_diff_x |-> Some(BoolIndex(Val(xvals), mask_abs)[1]),
             max_rel_diff_x |-> Some(BoolIndex(Val(xvals), Val(mask_rel))[1]),
             and_left |-> Len(left), and_right |-> Len(right),
             mask_abs |-> Len(mask_abs), mask_rel |-> Len(Val(mask_rel)),
             indexed  |-> Len(Val(xvals))]

\* print_fit_details: "give all coefficient names the same length", in the
\* list object the caller passed (coef_names holds one name per coefficient)
PadNames(coef_names, ncoefs) ==
    LET strlen == MaxLenOf(coef_names) IN
    [i \in 1..Len(coef_names) |->
        IF i <= ncoefs THEN " " \o FmtS(strlen, coef_names[i]) ELSE coef_names[i]]

\* what a call did.  outcome: "return", "exit" (the program exits), "raise" (an
\* exception leaves the function).  Of the output only stderr and the failure
\* messages on stdout are kept.  coef_names: the caller's list after the call;
\* details_args: the arguments print_fit_details was called with;
\* arrays: xvals, yvals, yfit, ysigmas as used for chi^2; max: see LocateMax
NoRes == [outcome |-> "none", exc |-> None, code |-> None, stderr |-> None,
          stdout |-> <<>>, value |-> None, coef_names |-> None,
          printed_names |-> None, details_args |-> None, arrays |-> None,
          max |-> NoMax]

\* no call of the fit module made yet
InitFitIdle ==
    /\ fcall = [fn |-> "none"]
    /\ fres = NoRes
    /\ ncall = 0

\* print_fit_details(xvals, yvals, ysigmas, fittype, coefs, fit_fun=, yfit=,
\* verbosity=, coef_names=), a = the arguments.  dcoefs, var_cov, abs_diff,
\* rel_diff, sigdig, coef_facs, rev_coefs, yprintfac and rel_as_pct only change
\* the text printed.
print_fit_details(a) ==
    LET fv == FitValues(a) IN
    IF ~IsNone(fv.err) /\ Val(fv.err).exited THEN
        [NoRes EXCEPT !.outcome = "exit", !.code = Some(Val(fv.err).code),
                      !.stderr = Some(Val(fv.err).stderr),
                      !.coef_names = a.coef_names, !.details_args = Some(a)]
    ELSE
        LET yfit     == [i \in 1..Len(a.yvals) |-> a.yvals[i] * 0 + Val(fv.yfit)[i]]
            d        == Discard(a.xvals, a.yvals, yfit, a.ysigmas)
            ncoefs   == NCoefs(a.coefs)
            red_chi2 == ReducedChi2(d.yvals, d.yfit, d.ysigmas, ncoefs)
            mx       == IF a.verbosity > 2
                        THEN LocateMax(d.xvals, d.yvals, YDiffs(d.yvals, d.yfit))
                        ELSE NoMax
            pad      == a.verbosity > 1 /\ ~IsNone(a.coefs) /\ ~IsNone(a.coef_names)
            names    == IF pad THEN Some(PadNames(Val(a.coef_names), ncoefs))
                        ELSE a.coef_names
        IN
        IF ~IsNone(mx.exc) THEN
            [NoRes EXCEPT !.outcome = "raise", !.exc = mx.exc,
                          !.coef_names = a.coef_names, !.details_args = Some(a),
                          !.arrays = Some(d), !.max = mx]
        ELSE
            [NoRes EXCEPT !.outcome = "return", !.value = Some(red_chi2),
                          !.coef_names = names,
                          !.printed_names = IF pad THEN names ELSE None,
                          !.details_args = Some(a), !.arrays = Some(d), !.max = mx]

\* np_polyfit_chi2(xvals, yvals, order, ysigmas=, verbosity=); a.lib is what
\* numpy.polyfit does: it raises, or returns order+1 coefficients
np_polyfit_chi2(a) ==
    IF a.lib.raised THEN
        [NoRes EXCEPT !.outcome = "raise", !.exc = Some(a.lib.e)]
    ELSE
        LET ysigmas == IF IsNone(a.ysigmas) THEN Some(OnesLike(a.yvals)) ELSE a.ysigmas
            out     == IF IsNone(a.ysigmas) /\ a.verbosity > 0
                       THEN <<"ysigmas=None; assuming sigma=1 for all data points.">>
                       ELSE <<>>
            r == print_fit_details(
                     [xvals |-> a.xvals, yvals |-> a.yvals, ysigmas |-> ysigmas,
                      fittype |-> Some("np_polyfit"), coefs |-> Some(a.lib.coefs),
                      fit_fun |-> None, yfit |-> None, verbosity |-> a.verbosity,
                      coef_names |-> None])
        IN
        IF r.outcome = "return"
        THEN [r EXCEPT !.stdout = out,
                       !.value = Some([coefs |-> Some(a.lib.coefs), red_chi2 |-> r.value])]
        ELSE [r EXCEPT !.stdout = out]

\* scipy_curvefit_chi2, the except clause: the message printed
CaughtMsgs_v1(verbosity, e) ==
    IF verbosity > 1 THEN <<"sluyspy.fit: fit failed: " \o e>> ELSE <<>>

CaughtMsgs(verbosity, e) ==
    IF verbosity > 0 THEN <<"sluyspy.fit: fit failed: " \o e>> ELSE <<>>

\* scipy_curvefit_chi2: "if call failed or fit did not converge"
FitFailed_lt(ier) == ier < 0

FitFailed(ier) == ier <= 0

\* scipy_curvefit_chi2(fit_fun, xvals, yvals, coefs0, ysigmas=, verbosity=);
\* a.lib is what curve_fit does: it raises e, or returns coefs, var_cov (its
\* diagonal is kept) and ier
scipy_curvefit_chi2(a) ==
    LET ier  == IF a.lib.raised THEN -1 ELSE a.lib.ier
        out1 == IF a.lib.raised THEN CaughtMsgs(a.verbosity, a.lib.e) ELSE <<>>
    IN
    IF FitFailed(ier) THEN
        [NoRes EXCEPT
            !.outcome = "return",
            !.stdout  = out1 \o (IF a.verbosity > 0
                                 THEN <<"Fit failed: " \o ToString(ier)>> ELSE <<>>),
            !.value   = Some([coefs |-> None, dcoefs |-> None, red_chi2 |-> None,
                              var_cov |-> None, ier |-> ier])]
    ELSE
        LET ysigmas == IF IsNone(a.ysigmas) THEN Some(OnesLike(a.yvals)) ELSE a.ysigmas
            dcoefs  == [i \in 1..Len(a.lib.var_cov) |-> Sqrt(a.lib.var_cov[i])]
            r == print_fit_details(
                     [xvals |-> a.xvals, yvals |-> a.yvals, ysigmas |-> ysigmas,
                      fittype |-> Some("scipy_curvefit"), coefs |-> Some(a.lib.coefs),
                      fit_fun |-> a.fit_fun, yfit |-> None, verbosity |-> a.verbosity,
                      coef_names |-> None])
        IN
        IF r.outcome = "return"
        THEN [r EXCEPT !.stdout = out1,
                       !.value = Some([coefs |-> Some(a.lib.coefs), dcoefs |-> Some(dcoefs),
                                       red_chi2 |-> r.value,
                                       var_cov |-> Some(a.lib.var_cov), ier |-> ier])]
        ELSE [r EXCEPT !.stdout = out1]

----------------------------------------------------------------------------
(* plot.py *)

\* Sizes are in pixels at the default 100 dpi (hundredths of the "inches" of
\* the code), line widths in tenths.  Calls with xkcd=False are modelled; the
\* styles chosen by cblind and dark_bg set colours only.

NoLoc == [ptype |-> "", title |-> "", titlel |-> "", plotnum |-> 0,
          hsize_arg |-> None, vsize_arg |-> None, hsize |-> 0, vsize |-> 0,
          fz |-> None, lw |-> None]
NoPlotRes == [fn |-> "none", outcome |-> "none", code |-> None, stderr |-> None,
              stdout |-> <<>>, fig |-> None, shown |-> FALSE, saved |-> None,
              closed |-> FALSE]

\* the process starts with no figure and matplotlib's defaults: font.size 10,
\* lines.linewidth 1.5
InitPlot ==
    /\ figs = {}
    /\ rc = [font_size |-> 10, linewidth |-> 15]
    /\ pc = "idle"
    /\ loc = NoLoc
    /\ pres = NoPlotRes

\* "if size>50, assume pixels are specified; convert to inches", in pixels
SizeArg(size) ==
    IF IsNone(size) THEN None
    ELSE IF Val(size) > 50 THEN size
    ELSE Some(Val(size) * 100)

PlotTypes == {"screen", "file", "both", "square", "org"}

\* start_plot, the branch on ptype: the size used when hsize or vsize is None
\* and the rcParams after the branch
PlotTypeSettings(ptype, r) ==
    IF ptype = "screen" THEN
        [hsize |-> 1920, vsize |-> 1080, rc |-> [r EXCEPT !.font_size = 14]]
    ELSE IF ptype = "file" THEN
        [hsize |-> 1250, vsize |-> 700, rc |-> [r EXCEPT !.font_size = 14, !.linewidth = 20]]
    ELSE IF ptype = "both" THEN
        [hsize |-> 1580, vsize |-> 850, rc |-> [r EXCEPT !.font_size = 16, !.linewidth = 20]]
    ELSE IF ptype = "square" THEN
        [hsize |-> 850, vsize |-> 850, rc |-> [r EXCEPT !.font_size = 16]]
    ELSE \* ptype = "org"
        [hsize |-> 900, vsize |-> 500, rc |-> [r EXCEPT !.font_size = 12]]

\* _plt.fignum_exists(label)
fignum_exists(label) == label \in figs

MaxFigs == 2

Titles == {"Python plot", "Python plot 2", "fit"}
HSizeArgs == {None, Some(8), Some(640)}
VSizeArgs == {None, Some(480)}
FontArgs == {None, Some(20)}
WidthArgs == {None, Some(3)}

\* start_plot(ptype, hsize, vsize, title=, fz=, lw=) up to the search for a
\* free window title: styles, sizes, the settings of the plot type, or the
\* error for an unknown plot type
StartPlot ==
    /\ pc = "idle"
    /\ Cardinality(figs) <= MaxFigs
    /\ \E ptype \in PlotTypes \cup {"paper"}, hsize \in HSizeArgs, vsize \in VSizeArgs,
          title \in Titles, fz \in FontArgs, lw \in WidthArgs :
         LET h == SizeArg(hsize)
             v == SizeArg(vsize)
         IN
         IF ptype \in PlotTypes THEN
             LET st == PlotTypeSettings(ptype, rc) IN
             /\ rc' = st.rc
             /\ loc' = [ptype |-> ptype, title |-> title, titlel |-> title, plotnum |-> 2,
                        hsize_arg |-> hsize, vsize_arg |-> vsize,
                        hsize |-> IF IsNone(h) THEN st.hsize ELSE Val(h),
                        vsize |-> IF IsNone(v) THEN st.vsize ELSE Val(v),
                        fz |-> fz, lw |-> lw]
             /\ pc' = "test"
             /\ pres' = [NoPlotRes EXCEPT !.fn = "start_plot"]
             /\ UNCHANGED figs
         ELSE
             LET e == error("Unknown plot type: " \o ptype \o ", aborting.", TRUE, 1) IN
             /\ pc' = "exited"
             /\ pres' = [NoPlotRes EXCEPT !.fn = "start_plot", !.outcome = "exit",
                                          !.code = Some(e.code), !.stderr = Some(e.stderr)]
             /\ loc' = [NoLoc EXCEPT !.ptype = ptype]
             /\ UNCHANGED <<figs, rc>>
    /\ UNCHANGED <<fitvars, envvars, textvars, sysvars, htmlvars>>

\* while _plt.fignum_exists(titlel): the title is in use
TitleTaken ==
    /\ pc = "test"
    /\ fignum_exists(loc.titlel)
    /\ pc' = "body"
    /\ UNCHANGED <<figs, rc, loc, pres, fitvars, envvars, textvars, sysvars, htmlvars>>

\* the body of the loop: titlel = title + ' ' + str(plotnum)
NextTitle ==
    /\ pc = "body"
    /\ loc' = [loc EXCEPT !.titlel = loc.title \o " " \o ToString(loc.plotnum)]
    /\ pc' = "test"
    /\ UNCHANGED <<figs, rc, pres, fitvars, envvars, textvars, sysvars, htmlvars>>

\* the title is free: fz and lw overrule the settings, the figure is created
\* and returned
CreateFigure ==
    /\ pc = "test"
    /\ ~fignum_exists(loc.titlel)
    /\ rc' = [font_size |-> IF IsNone(loc.fz) THEN rc.font_size ELSE Val(loc.fz),
              linewidth |-> IF IsNone(loc.lw) THEN rc.linewidth ELSE Val(loc.lw) * 10]
    /\ figs' = figs \cup {loc.titlel}
    /\ pres' = [NoPlotRes EXCEPT
                  !.fn = "start_plot", !.outcome = "return",
                  !.fig = Some([label |-> loc.titlel, hsize |-> loc.hsize,
                                vsize |-> loc.vsize, args |-> loc])]
    /\ loc' = NoLoc
    /\ pc' = "idle"
    /\ UNCHANGED <<fitvars, envvars, textvars, sysvars, htmlvars>>

\* finish_plot(fig, ax, file_name=, save=, close=): the figure is shown, or
\* saved to file_name; it is closed if close is still set.  ctrlc: Ctrl-C is
\* pressed while the figure is shown.  Titles, labels, legend, scales, grid
\* and margins decorate the figure and are left out.
FinishPlot ==
    /\ pc = "idle"
    /\ \E fig \in figs, file_name \in {None, Some("screen"), Some("plot.png")},
          save \in BOOLEAN, close \in BOOLEAN, ctrlc \in BOOLEAN :
         LET screen == IsNone(file_name) \/ file_name = Some("screen")
             out    == IF file_name = Some("screen")
                       THEN <<"sluyspy.plot.finish_plot(): file_name = 'screen' is obsolescent and will be removed.  Use None instead.">>
                       ELSE <<>>
             close1 == IF ~screen /\ ~save THEN FALSE ELSE close
         IN
         IF screen /\ ctrlc THEN
             /\ pc' = "exited"
             /\ pres' = [NoPlotRes EXCEPT
                           !.fn = "finish_plot", !.outcome = "exit", !.code = Some(0),
                           !.stdout = out \o <<" - Received keyboard interrupt whilst showing plot, aborting.">>,
                           !.fig = Some([label |-> fig, file_name |-> file_name,
                                         save |-> save, close |-> close]),
                           !.shown = TRUE]
             /\ UNCHANGED figs
         ELSE
             /\ ~screen => ~ctrlc
             /\ pc' = "idle"
             /\ figs' = IF close1 THEN figs \ {fig} ELSE figs
             /\ pres' = [NoPlotRes EXCEPT
                           !.fn = "finish_plot", !.outcome = "return", !.stdout = out,
                           !.fig = Some([label |-> fig, file_name |-> file_name,
                                         save |-> save, close |-> close]),
                           !.shown = screen,
                           !.saved = IF ~screen /\ save THEN file_name ELSE None,
                           !.closed = close1]
    /\ UNCHANGED <<rc, loc, fitvars, envvars, textvars, sysvars, htmlvars>>

NextPlot ==
    \/ StartPlot
    \/ TitleTaken
    \/ NextTitle
    \/ CreateFigure
    \/ FinishPlot

----------------------------------------------------------------------------
(* system.py, env.py, solar_panels.py *)

\* str.replace('~', home)
RECURSIVE ReplaceTilde(_, _)
ReplaceTilde(str, home) ==
    IF str = "" THEN ""
    ELSE (IF SubSeq(str, 1, 1) = "~" THEN home ELSE SubSeq(str, 1, 1))
         \o ReplaceTilde(SubSeq(str, 2, Len(str)), home)

\* astroconst.d2r in micro-radians per degree: angles are kept in micro-radians
D2R == 17453

\* config.get(section, key, fallback=...): the value in the file, or the fallback
ConfigGet(config, key, fallback) ==
    IF IsNone(config[key]) THEN fallback ELSE Val(config[key])

\* Environment(): the defaults of the dataclass (the directories of the
\* sections Weather and HWC are filled like sp_dir and el_dir and left out)
Environment ==
    [tz |-> "", geo_lon |-> 0, geo_lat |-> 0, geo_alt |-> 0,
     host |-> "", home |-> "", on_think |-> FALSE, on_zotac |-> FALSE, on_hwc |-> FALSE,
     sp_dir |-> "", el_dir |-> ""]

\* configparser's config.read(home/cfg_file): the file is read, once more
ConfigRead_once(c) == IF c.cfg_reads = 0 THEN [c EXCEPT !.cfg_reads = @ + 1] ELSE c

ConfigRead(c) == [c EXCEPT !.cfg_reads = @ + 1]

\* environment(cfg_file): the record returned, a new object (id), and the
\* counters of the queries made: system.host(), system.homedir(), config.read
environment(o, c) ==
    LET c1     == [c EXCEPT !.calls = @ + 1, !.host_queries = @ + 1,
                            !.home_queries = @ + 1, !.objects = @ + 1]
        host   == o.host
        home   == o.home
        c2     == ConfigRead(c1)
        config == o.cfg
        env    == [Environment EXCEPT
                     !.host     = host,
                     !.home     = home,
                     !.on_think = (host = "think"),
                     !.on_zotac = (host = "zotac"),
                     !.on_hwc   = (host = "hwc"),
                     !.tz       = ConfigGet(config, "timezone", Environment.tz),
                     !.geo_lon  = ConfigGet(config, "longitude", Environment.geo_lon) * D2R,
                     !.geo_lat  = ConfigGet(config, "latitude", Environment.geo_lat) * D2R,
                     !.geo_alt  = ConfigGet(config, "altitude", Environment.geo_alt),
                     !.sp_dir   = ReplaceTilde(ConfigGet(config, "sp_basedir",
                                                         Environment.sp_dir), home),
                     !.el_dir   = ReplaceTilde(ConfigGet(config, "el_basedir",
                                                         Environment.el_dir), home)]
    IN  [ret |-> [id |-> c1.objects, env |-> env], cnt |-> c2]

MaxCalls == 3

Hosts == {"think", "zotac", "hwc", "laptop"}
Homes == {"/home/sluys", "/root"}

\* the configuration file: absent or empty, complete, partial
NoConfig == [timezone |-> None, longitude |-> None, latitude |-> None,
             altitude |-> None, sp_basedir |-> None, el_basedir |-> None]
Configs ==
    {NoConfig,
     [timezone |-> Some("Europe/Amsterdam"), longitude |-> Some(5), latitude |-> Some(52),
      altitude |-> Some(10), sp_basedir |-> Some("~/sp"), el_basedir |-> Some("/data/el")],
     [NoConfig EXCEPT !.timezone = Some("UTC"), !.sp_basedir = Some("~/work/~sp")]}

InitEnv ==
    /\ os \in [host : Hosts, home : Homes, cfg : Configs]
    /\ cnt = [calls |-> 0, host_queries |-> 0, home_queries |-> 0, cfg_reads |-> 0,
              objects |-> 0, sp_inits |-> 0]
    /\ last_env = None
    /\ sp_mod = [imported |-> FALSE, env |-> None]

\* the state of the host and of env.py in the runs that do not use them
EnvIdle ==
    /\ os = [host |-> "laptop", home |-> "/root", cfg |-> NoConfig]
    /\ cnt = [calls |-> 0, host_queries |-> 0, home_queries |-> 0, cfg_reads |-> 0,
              objects |-> 0, sp_inits |-> 0]
    /\ last_env = None
    /\ sp_mod = [imported |-> FALSE, env |-> None]

\* some code of the process calls environment()
CallEnvironment ==
    /\ cnt.calls < MaxCalls
    /\ LET r == environment(os, cnt)
       IN  /\ last_env' = Some(r.ret)
           /\ cnt' = r.cnt
    /\ UNCHANGED <<os, sp_mod, fitvars, plotvars, textvars, sysvars, htmlvars>>

\* import sluyspy.solar_panels: the first import runs the module body, which
\* sets the global env = environment(); a later import finds the module loaded
ImportSolarPanels ==
    /\ cnt.calls < MaxCalls
    /\ IF sp_mod.imported
       THEN UNCHANGED <<cnt, last_env, sp_mod>>
       ELSE LET r == environment(os, cnt)
            IN  /\ last_env' = Some(r.ret)
                /\ cnt' = [r.cnt EXCEPT !.sp_inits = @ + 1]
                /\ sp_mod' = [imported |-> TRUE, env |-> Some(r.ret)]
    /\ UNCHANGED <<os, fitvars, plotvars, textvars, sysvars, htmlvars>>

NextEnv ==
    \/ CallEnvironment
    \/ ImportSolarPanels

InitEnvRun ==
    /\ InitEnv
    /\ InitFitIdle
    /\ InitPlot
    /\ TextIdle /\ SysIdle /\ HtmlIdle

SpecEnv == InitEnvRun /\ [][NextEnv]_vars

\* C3 as claimed: the environment record is computed once per process: the
\* configuration file is read at most once, the host name and the home
\* directory are queried at most once, and every call returns the one record.
C3_ComputedOnce ==
    /\ cnt.cfg_reads <= 1
    /\ cnt.host_queries <= 1 /\ cnt.home_queries <= 1
    /\ ~IsNone(last_env) => Val(last_env).id = 1

\* C3 as amended: environment() is not memoized: every call queries the host
\* name and the home directory, reads the configuration file and returns a new
\* record, so the file is read once per call of environment(); the global env
\* of solar_panels is computed once, by the first import of the module.
C3_ComputedPerCall ==
    /\ cnt.cfg_reads = cnt.calls
    /\ cnt.host_queries = cnt.calls /\ cnt.home_queries = cnt.calls
    /\ ~IsNone(last_env) => Val(last_env).id = cnt.calls
    /\ cnt.sp_inits = (IF sp_mod.imported THEN 1 ELSE 0)
    /\ sp_mod.imported => ~IsNone(sp_mod.env) /\ Val(sp_mod.env).id <= cnt.calls

C3_Witness ==
    /\ cnt.calls = 3 /\ cnt.cfg_reads = 3
    /\ sp_mod.imported /\ Val(sp_mod.env).id = 2
    /\ Val(last_env).id = 3 /\ Val(last_env).env = Val(sp_mod.env).env

----------------------------------------------------------------------------
(* The plot module as a process: calls of start_plot and finish_plot *)

InitPlotRun ==
    /\ InitPlot
    /\ InitFitIdle
    /\ EnvIdle
    /\ TextIdle /\ SysIdle /\ HtmlIdle

\* a call of start_plot, once made, runs on: each step of its loop and the
\* creation of the figure are taken when they can be
SpecPlot ==
    /\ InitPlotRun
    /\ [][NextPlot]_vars
    /\ WF_vars(TitleTaken) /\ WF_vars(NextTitle) /\ WF_vars(CreateFigure)

\* C8: whatever figures exist, a call of start_plot that reaches the search
\* for a window title ends, returning a new figure.
C8_StartPlotTerminates ==
    (pc \in {"test", "body"}) ~> (pc = "idle" /\ pres.fn = "start_plot"
                                  /\ pres.outcome = "return")

\* the defaults documented for the plot types: font size, line width (tenths)
DocumentedRc(ptype) ==
    IF ptype = "screen" THEN [font_size |-> 14, linewidth |-> 10]
    ELSE IF ptype = "file" THEN [font_size |-> 14, linewidth |-> 20]
    ELSE IF ptype = "both" THEN [font_size |-> 16, linewidth |-> 20]
    ELSE IF ptype = "square" THEN [font_size |-> 16, linewidth |-> 20]
    ELSE [font_size |-> 12, linewidth |-> 10]

\* the sizes documented for the plot types, in pixels
DocumentedSize(ptype) ==
    IF ptype = "screen" THEN <<1920, 1080>>
    ELSE IF ptype = "file" THEN <<1250, 700>>
    ELSE IF ptype = "both" THEN <<1580, 850>>
    ELSE IF ptype = "square" THEN <<850, 850>>
    ELSE <<930, 520>>

StartPlotReturned == pres.fn = "start_plot" /\ pres.outcome = "return"

\* C9: when the start_plot call made last passed fz=None and lw=None, the
\* global font size and line width are the defaults documented for its ptype.
C9_DocumentedDefaults ==
    (StartPlotReturned /\ IsNone(Val(pres.fig).args.fz) /\ IsNone(Val(pres.fig).args.lw)) =>
        rc = DocumentedRc(Val(pres.fig).args.ptype)

\* C10: with hsize=None and vsize=None the figure created has the size
\* documented for its ptype; an unknown ptype prints an error and exits, and no
\* figure is created.
C10_DocumentedSizes ==
    /\ (StartPlotReturned /\ IsNone(Val(pres.fig).args.hsize_arg)
                          /\ IsNone(Val(pres.fig).args.vsize_arg)) =>
          <<Val(pres.fig).hsize, Val(pres.fig).vsize>>
              = DocumentedSize(Val(pres.fig).args.ptype)
    /\ (pres.fn = "start_plot" /\ loc.ptype \notin PlotTypes \cup {""}) =>
          pc = "exited" /\ pres.outcome = "exit" /\ ~IsNone(pres.stderr)

\* C11: after finish_plot has returned from a call with save=False, the figure
\* is not closed and is still open, whatever file_name and close were.
C11_UnsavedStaysOpen ==
    (pres.fn = "finish_plot" /\ pres.outcome = "return" /\ ~Val(pres.fig).save) =>
        ~pres.closed /\ fignum_exists(Val(pres.fig).label)

----------------------------------------------------------------------------
(* The calls of the fit module: arguments drawn from bounded sets *)

MaxLen == 2

YVals == {0, 1, 2}
SigmaVals == {0, 1, 2}
Verbosities == {0, 1, 2, 3}
CoefVecs == {<<>>, <<1>>, <<1, 2>>}

Arrays(V, n) == [1..n -> V]
XArr(n) == [i \in 1..n |-> i]
OptArrays(V, n) == {None} \cup {Some(t) : t \in Arrays(V, n)}

\* data sets: n points with y values and, optionally, sigmas
FitData(maxn) ==
    UNION {{[n |-> n, yvals |-> y, ysigmas |-> sg] :
                y \in Arrays(YVals, n), sg \in OptArrays(SigmaVals, n)} : n \in 0..maxn}

\* the other arguments of a direct call of print_fit_details, by fittype
DirectVariants(n) ==
    {[xvals |-> Some(XArr(n)), fittype |-> Some("np_polyfit"), coefs |-> Some(c),
      fit_fun |-> None, yfit |-> None] : c \in CoefVecs}
    \cup
    {[xvals |-> Some(XArr(n)), fittype |-> Some("scipy_curvefit"), coefs |-> c,
      fit_fun |-> f, yfit |-> None] :
        c \in {None} \cup {Some(v) : v \in CoefVecs}, f \in {None, Some("polynomial")}}
    \cup
    {[xvals |-> x, fittype |-> None, coefs |-> c, fit_fun |-> None, yfit |-> yf] :
        x \in {None, Some(XArr(n))}, c \in {None, Some(<<1>>)},
        yf \in {None} \cup {Some([i \in 1..n |-> k]) : k \in {1, 2}}}
    \cup
    {[xvals |-> Some(XArr(n)), fittype |-> Some(t), coefs |-> None,
      fit_fun |-> None, yfit |-> yf] :
        t \in {"polyfit", "curve_fit"}, yf \in {None, Some([i \in 1..n |-> 1])}}

InitFit ==
    /\ InitFitIdle
    /\ EnvIdle
    /\ InitPlot
    /\ TextIdle /\ SysIdle /\ HtmlIdle

CallPrintFitDetails ==
    /\ ncall = 0
    /\ \E d \in FitData(MaxLen), v \in Verbosities :
      \E w \in DirectVariants(d.n) :
        LET a == [xvals |-> w.xvals, yvals |-> d.yvals, ysigmas |-> d.ysigmas,
                  fittype |-> w.fittype, coefs |-> w.coefs, fit_fun |-> w.fit_fun,
                  yfit |-> w.yfit, verbosity |-> v, coef_names |-> None]
        IN  /\ fcall' = [fn |-> "print_fit_details", args |-> a]
            /\ fres' = print_fit_details(a)
            /\ ncall' = 1
            /\ UNCHANGED <<envvars, plotvars, textvars, sysvars, htmlvars>>

\* numpy.polyfit: an exception, or order+1 coefficients
PolyfitResults(order) ==
    {[raised |-> TRUE, e |-> "LinAlgError", coefs |-> <<>>]}
    \cup {[raised |-> FALSE, e |-> "", coefs |-> c] :
            c \in {[i \in 1..(order + 1) |-> k] : k \in {1, 2}}}

CallNpPolyfitChi2 ==
    /\ ncall = 0
    /\ \E d \in FitData(MaxLen), v \in Verbosities, order \in {0, 1} :
      \E lib \in PolyfitResults(order) :
        LET a == [xvals |-> Some(XArr(d.n)), yvals |-> d.yvals, order |-> order,
                  ysigmas |-> d.ysigmas, verbosity |-> v, lib |-> lib]
        IN  /\ fcall' = [fn |-> "np_polyfit_chi2", args |-> a]
            /\ fres' = np_polyfit_chi2(a)
            /\ ncall' = 1
            /\ UNCHANGED <<envvars, plotvars, textvars, sysvars, htmlvars>>

\* curve_fit(..., full_output=True): an exception, or coefs, var_cov and ier.
\* ier = 0 stands for a fit that did not converge and was still returned, the
\* case the test ier <= 0 provides for.
CurveFitResults(coefs0) ==
    {[raised |-> TRUE, e |-> "RuntimeError", coefs |-> <<>>, var_cov |-> <<>>, ier |-> 0]}
    \cup {[raised |-> FALSE, e |-> "", coefs |-> coefs0,
           var_cov |-> [i \in 1..Len(coefs0) |-> vc], ier |-> ier] :
            vc \in {1, 4}, ier \in {0, 1, 4}}

CallScipyCurvefitChi2 ==
    /\ ncall = 0
    /\ \E d \in FitData(MaxLen), v \in Verbosities, coefs0 \in CoefVecs :
      \E lib \in CurveFitResults(coefs0) :
        LET a == [fit_fun |-> Some("polynomial"), xvals |-> Some(XArr(d.n)),
                  yvals |-> d.yvals, coefs0 |-> coefs0, ysigmas |-> d.ysigmas,
                  verbosity |-> v, lib |-> lib]
        IN  /\ fcall' = [fn |-> "scipy_curvefit_chi2", args |-> a]
            /\ fres' = scipy_curvefit_chi2(a)
            /\ ncall' = 1
            /\ UNCHANGED <<envvars, plotvars, textvars, sysvars, htmlvars>>

NextFit ==
    \/ CallPrintFitDetails
    \/ CallNpPolyfitChi2
    \/ CallScipyCurvefitChi2

SpecFit == InitFit /\ [][NextFit]_vars

----------------------------------------------------------------------------
(* Claims about the fit module, checked under SpecFit *)

CurveFitCalled == fcall.fn = "scipy_curvefit_chi2"
AllNone(t) == IsNone(t.coefs) /\ IsNone(t.dcoefs) /\ IsNone(t.red_chi2) /\ IsNone(t.var_cov)
NoneNone(t) == ~IsNone(t.coefs) /\ ~IsNone(t.dcoefs) /\ ~IsNone(t.red_chi2) /\ ~IsNone(t.var_cov)

\* C1: when curve_fit raises, scipy_curvefit_chi2 returns (None, None, None,
\* None, -1) instead of propagating the exception; in every return the four
\* results are all non-None when ier > 0 and all None when ier <= 0.
C1_FailureTuple ==
    CurveFitCalled =>
        /\ fcall.args.lib.raised =>
              /\ fres.outcome = "return"
              /\ fres.value = Some([coefs |-> None, dcoefs |-> None, red_chi2 |-> None,
                                    var_cov |-> None, ier |-> -1])
        /\ fres.outcome = "return" =>
              LET t == Val(fres.value) IN
              /\ t.ier > 0 => NoneNone(t)
              /\ t.ier <= 0 => AllNone(t)

C1_Witness ==
    /\ CurveFitCalled /\ fcall.args.lib.raised
    /\ fres.outcome = "return" /\ Val(fres.value).ier = -1

\* C4 as claimed: whenever curve_fit raises, a failure message is printed, at
\* every verbosity (0 included).
C4_AlwaysPrints ==
    (CurveFitCalled /\ fcall.args.lib.raised) => fres.stdout # <<>>

\* C4 as amended: when curve_fit raises and verbosity > 0, the messages
\* "<module>: fit failed: <exception>" and "Fit failed: -1" are printed before
\* the return; with verbosity 0 nothing is printed.
C4_PrintsIfVerbose ==
    (CurveFitCalled /\ fcall.args.lib.raised) =>
        /\ fres.outcome = "return"
        /\ fcall.args.verbosity > 0 =>
              fres.stdout = <<"sluyspy.fit: fit failed: " \o fcall.args.lib.e,
                              "Fit failed: -1">>
        /\ fcall.args.verbosity = 0 => fres.stdout = <<>>

C4_Witness ==
    /\ CurveFitCalled /\ fcall.args.lib.raised /\ fcall.args.verbosity = 1
    /\ Len(fres.stdout) = 2

\* the four cases of C5
ErrorCase(a) ==
    \/ a.fittype = Some("scipy_curvefit") /\ IsNone(a.fit_fun)
    \/ a.fittype = Some("scipy_curvefit") /\ IsNone(a.coefs)
    \/ IsNone(a.fittype) /\ IsNone(a.yfit)
    \/ a.fittype \notin {Some("np_polyfit"), Some("scipy_curvefit"), None}

\* C5: in each of the four cases print_fit_details returns nothing: it writes
\* an error message to stderr and exits the program with exit code 1.
C5_ErrorExits ==
    (fcall.fn = "print_fit_details" /\ ErrorCase(fcall.args)) =>
        /\ fres.outcome = "exit"
        /\ fres.code = Some(1)
        /\ ~IsNone(fres.stderr) /\ SubSeq(Val(fres.stderr), 1, 7) = "ERROR: "
        /\ IsNone(fres.value)

C5_Witness ==
    /\ fcall.fn = "print_fit_details"
    /\ fcall.args.fittype = Some("polyfit")
    /\ fres.outcome = "exit" /\ fres.code = Some(1)

\* the reduced chi^2 a call returned (None when it returned none)
ReturnedRedChi2 ==
    IF fres.outcome # "return" THEN None
    ELSE IF fcall.fn = "print_fit_details" THEN fres.value
    ELSE Val(fres.value).red_chi2

\* sigma of data point i as print_fit_details was given it (1 without ysigmas)
SigmaAt(a, i) == IF IsNone(a.ysigmas) THEN 1 ELSE Val(a.ysigmas)[i]

\* ((yfit_i - yvals_i)/sigma_i)^2 for data point i of the arguments a
Chi2Term(a, i) ==
    LET d == Val(FitValues(a).yfit)[i] - a.yvals[i]
    IN  R(d * d, SigmaAt(a, i) * SigmaAt(a, i))

\* the sum of Chi2Term over the points 1..i that are in the index set I
RECURSIVE Chi2Over(_, _, _)
Chi2Over(a, I, i) ==
    IF i = 0 THEN R(0, 1)
    ELSE RatAdd(Chi2Over(a, I, i - 1), IF i \in I THEN Chi2Term(a, i) ELSE R(0, 1))

Chi2PerDof(a, I) ==
    LET chi2 == Chi2Over(a, I, Len(a.yvals))
        m    == IF IsNone(a.coefs) THEN 0 ELSE Len(Val(a.coefs))
    IN  R(chi2.num, chi2.den * (Cardinality(I) - m))

\* C2 as claimed: the value returned is chi2/(n-m) with chi2 summed over the
\* data points passed in and n the number of data points passed in (stated
\* for the calls that return a finite value with n-m > 0).
C2_AllPoints ==
    (~IsNone(ReturnedRedChi2) /\ Val(ReturnedRedChi2).den > 0) =>
        LET a == Val(fres.details_args) IN
        RatEq(Val(ReturnedRedChi2), Chi2PerDof(a, 1..Len(a.yvals)))

\* C2 as amended: when ysigmas is given, the sum and n are over the data
\* points with ysigma > 0 only (the others are discarded first); without
\* ysigmas every sigma is 1 and every point counts; m is the number of
\* coefficients (0 when coefs is None).
C2_PointsWithSigma ==
    ~IsNone(ReturnedRedChi2) =>
        LET a == Val(fres.details_args) IN
        RatEq(Val(ReturnedRedChi2),
              Chi2PerDof(a, {i \in 1..Len(a.yvals) : SigmaAt(a, i) > 0}))

C2_Witness ==
    /\ fcall.fn = "print_fit_details" /\ fres.outcome = "return"
    /\ fcall.args.ysigmas = Some(<<2, 0>>)
    /\ Val(ReturnedRedChi2).num > 0 /\ Val(ReturnedRedChi2).den > 0

----------------------------------------------------------------------------
(* print_fit_details called with coefficient names and at every verbosity,
   and called again with the same objects *)

MaxPoints == 3
MaxRepeat == 2

NameVals == {"a", "bb"}

\* coefficients with a list of names, one per coefficient, or without names
NamedCoefs ==
    {[coefs |-> None, coef_names |-> None]}
    \cup {[coefs |-> Some(c), coef_names |-> None] : c \in {<<1>>, <<1, 2>>}}
    \cup {[coefs |-> Some(c), coef_names |-> Some(nm)] :
            c \in {<<1>>}, nm \in Arrays(NameVals, 1)}
    \cup {[coefs |-> Some(c), coef_names |-> Some(nm)] :
            c \in {<<1, 2>>}, nm \in Arrays(NameVals, 2)}

\* data sets of up to MaxPoints points; sigmas, when given, are 0 or 1
DetailData ==
    UNION {{[n |-> n, yvals |-> y, ysigmas |-> sg] :
                y \in Arrays(YVals, n), sg \in OptArrays({0, 1}, n)} : n \in 1..MaxPoints}

DetailArgs(d, v, nc, yf, x) ==
    [xvals |-> x, yvals |-> d.yvals, ysigmas |-> d.ysigmas, fittype |-> None,
     coefs |-> nc.coefs, fit_fun |-> None, yfit |-> Some([i \in 1..d.n |-> yf]),
     verbosity |-> v, coef_names |-> nc.coef_names]

\* a first call: two series of y values are compared (fittype None)
CallDetails ==
    /\ ncall = 0
    /\ \E d \in DetailData, v \in Verbosities, nc \in NamedCoefs, yf \in {1, 2} :
         \E x \in {None, Some(XArr(d.n))} :
           LET a == DetailArgs(d, v, nc, yf, x)
           IN  /\ fcall' = [fn |-> "print_fit_details", args |-> a]
               /\ fres' = print_fit_details(a)
               /\ ncall' = 1
               /\ UNCHANGED <<envvars, plotvars, textvars, sysvars, htmlvars>>
            /\ UNCHANGED <<envvars, plotvars, textvars, sysvars, htmlvars>>

\* the caller calls again with the same objects: the list coef_names is the
\* object the previous call left behind
CallDetailsAgain ==
    /\ ncall \in 1..(MaxRepeat - 1)
    /\ fcall.fn = "print_fit_details"
    /\ fres.outcome = "return"
    /\ LET a == [fcall.args EXCEPT !.coef_names = fres.coef_names]
       IN  /\ fcall' = [fn |-> "print_fit_details", args |-> a]
           /\ fres' = print_fit_details(a)
           /\ ncall' = ncall + 1
           /\ UNCHANGED <<envvars, plotvars, textvars, sysvars, htmlvars>>

NextDetails ==
    \/ CallDetails
    \/ CallDetailsAgain

SpecDetails == InitFit /\ [][NextDetails]_vars

\* C6: in print_fit_details the arrays combined element-wise have matching
\* lengths: after the discard xvals, yvals, yfit and ysigmas have equal
\* length, the masks for the x value of the maximum absolute and relative
\* difference can be built (no operands of lengths that do not combine) and
\* have the length of xvals, the array they index.
C6_LengthsMatch ==
    (fcall.fn = "print_fit_details" /\ ~IsNone(fres.arrays)) =>
        LET d  == Val(fres.arrays)
            mx == fres.max
        IN
        /\ Len(d.yvals) = Len(d.yfit) /\ Len(d.yvals) = Len(d.ysigmas)
        /\ ~IsNone(d.xvals) => Len(Val(d.xvals)) = Len(d.yvals)
        /\ fres.exc # Some("ValueError: operands could not be broadcast together")
        /\ ~IsNone(mx.max_rel_diff_x) =>
              mx.mask_abs = mx.indexed /\ mx.mask_rel = mx.indexed

\* C7: after a call that returns, the caller's coef_names list holds the same
\* strings as before the call.
C7_NamesUnchanged ==
    (fcall.fn = "print_fit_details" /\ fres.outcome = "return") =>
        fres.coef_names = fcall.args.coef_names

----------------------------------------------------------------------------
(* text.py *)

\* Python's string indexing and slicing: an index i < 0 counts from the end,
\* an index outside -len..len-1 raises IndexError, a slice is clamped
Char(str, k) == SubSeq(str, k, k)
InRange(str, i) == -Len(str) <= i /\ i < Len(str)
PyIndex(str, i) == IF i < 0 THEN Char(str, Len(str) + i + 1) ELSE Char(str, i + 1)
Clamp(str, i) ==
    IF i < 0 THEN (IF Len(str) + i < 0 THEN 0 ELSE Len(str) + i)
    ELSE (IF i > Len(str) THEN Len(str) ELSE i)
PySlice(str, a, b) == SubSeq(str, Clamp(str, a) + 1, Clamp(str, b))

\* line[0:i0+il] + '\n' + ' '*indent + line[i0+il+1:]
Wrapped(line, k, indent) ==
    PySlice(line, 0, k) \o "\n" \o Spaces(indent) \o PySlice(line, k + 1, Len(line))

MaxLine == 5
MaxWlen == 3
MaxIndent == 3
MaxGrown == 12

\* the lines of at most n characters made of letters and spaces
RECURSIVE LinesUpTo(_)
LinesUpTo(n) ==
    IF n = 0 THEN {""}
    ELSE LET S == LinesUpTo(n - 1) IN S \cup {str \o c : str \in S, c \in {"a", " "}}

\* wrap_line(line, wlen, indent) up to its loop: a line that needs no break
\* is returned as it is
CallWrapLine ==
    /\ wl.pc = "idle"
    /\ wres.outcome = "none"
    /\ \E line \in LinesUpTo(MaxLine), wlen \in 1..MaxWlen, indent \in 0..MaxIndent :
         LET args == Some([line |-> line, wlen |-> wlen, indent |-> indent]) IN
         IF wlen >= Len(line) THEN
             /\ wres' = [outcome |-> "return", value |-> Some(line), args |-> args]
             /\ UNCHANGED wl
         ELSE
             /\ wl' = [pc |-> "loop", line |-> line, llen |-> Len(line), wlen |-> wlen,
                       indent |-> indent, i0 |-> 0, il |-> wlen, dl |-> -1, wraps |-> 0]
             /\ wres' = [NoWrapRes EXCEPT !.args = args]
    /\ UNCHANGED <<fitvars, envvars, plotvars, sysvars, htmlvars>>

\* the loop finds a space at line[i0+il]: the space becomes a newline and the
\* indentation, and the search restarts wlen further; the function returns
\* when that is past the end of the line
WrapAtSpace ==
    /\ wl.pc = "loop"
    /\ Len(wl.line) <= MaxGrown
    /\ InRange(wl.line, wl.i0 + wl.il)
    /\ PyIndex(wl.line, wl.i0 + wl.il) = " "
    /\ LET line == Wrapped(wl.line, wl.i0 + wl.il, wl.indent)
           i0   == wl.i0 + wl.il + wl.indent
           il   == wl.wlen
       IN  IF i0 + il >= Len(line) THEN
               /\ wl' = NoWrap
               /\ wres' = [wres EXCEPT !.outcome = "return", !.value = Some(line)]
           ELSE
               /\ wl' = [wl EXCEPT !.wraps = @ + 1, !.line = line, !.i0 = i0,
                                   !.il = il, !.dl = -1]
               /\ UNCHANGED wres
    /\ UNCHANGED <<fitvars, envvars, plotvars, sysvars, htmlvars>>

\* line[i0+il] is no space: the search moves on by dl; it returns when it is
\* past the length the line had at the call, and turns forward from i0+wlen
\* when il has come down to indent-1
SearchOn ==
    /\ wl.pc = "loop"
    /\ InRange(wl.line, wl.i0 + wl.il)
    /\ PyIndex(wl.line, wl.i0 + wl.il) # " "
    /\ LET il == wl.il + wl.dl IN
       IF wl.i0 + il > wl.llen THEN
           /\ wl' = NoWrap
           /\ wres' = [wres EXCEPT !.outcome = "return", !.value = Some(wl.line)]
       ELSE IF il = wl.indent - 1 THEN
           /\ wl' = [wl EXCEPT !.il = il, !.i0 = wl.i0 + wl.wlen, !.dl = 1]
           /\ UNCHANGED wres
       ELSE
           /\ wl' = [wl EXCEPT !.il = il]
           /\ UNCHANGED wres
    /\ UNCHANGED <<fitvars, envvars, plotvars, sysvars, htmlvars>>

\* line[i0+il] is outside the line: Python raises IndexError
IndexFault ==
    /\ wl.pc = "loop"
    /\ ~InRange(wl.line, wl.i0 + wl.il)
    /\ wl' = NoWrap
    /\ wres' = [wres EXCEPT !.outcome = "IndexError"]
    /\ UNCHANGED <<fitvars, envvars, plotvars, sysvars, htmlvars>>

NextText ==
    \/ CallWrapLine
    \/ WrapAtSpace
    \/ SearchOn
    \/ IndexFault

InitText ==
    /\ TextIdle
    /\ InitFitIdle /\ EnvIdle /\ InitPlot
    /\ SysIdle /\ HtmlIdle

\* a call of wrap_line, once made, runs on
SpecText ==
    /\ InitText
    /\ [][NextText]_vars
    /\ WF_vars(WrapAtSpace) /\ WF_vars(SearchOn) /\ WF_vars(IndexFault)

\* no word of the line (a run of characters other than spaces) is longer than
\* wlen: every wlen+1 characters in a row hold a space
NoLongWord(line, wlen) ==
    \A i \in 1..(Len(line) - wlen) : \E j \in i..(i + wlen) : Char(line, j) = " "

WrapArgs == Val(wres.args)
WrapLineEnded == ~IsNone(wres.args) /\ wl.pc = "idle"

\* C12: a call of wrap_line on a line without a word longer than wlen that has
\* ended has returned a string; it has not raised IndexError.
C12_ReturnsString ==
    (WrapLineEnded /\ NoLongWord(WrapArgs.line, WrapArgs.wlen)) =>
        wres.outcome = "return" /\ ~IsNone(wres.value)

\* the length of the longest of the pieces of str between newline characters;
\* cur is the length of the piece that ends at the start of str
RECURSIVE LongestPiece(_, _)
LongestPiece(str, cur) ==
    IF str = "" THEN cur
    ELSE IF Char(str, 1) = "\n"
         THEN LET rest == LongestPiece(SubSeq(str, 2, Len(str)), 0)
              IN  IF cur > rest THEN cur ELSE rest
         ELSE LongestPiece(SubSeq(str, 2, Len(str)), cur + 1)

\* C13: the text wrap_line returns for a line without a word longer than wlen
\* has no line longer than wlen, indentation included.
C13_LinesFit ==
    (wres.outcome = "return" /\ NoLongWord(WrapArgs.line, WrapArgs.wlen)) =>
        LongestPiece(Val(wres.value), 0) <= WrapArgs.wlen

----------------------------------------------------------------------------
(* system.py *)

\* host() == 'think', host() == 'zotac', Path('/home/hemel/').is_dir()
on_think == os.host = "think"
on_zotac == os.host = "zotac"
on_hwc == hemel

\* the truth value of a function object, which is what "if on_think:" tests:
\* the function is not called
FunctionIsTrue == TRUE

\* where_am_i()
where_am_i ==
    IF FunctionIsTrue THEN "think"
    ELSE IF FunctionIsTrue THEN "zotac"
    ELSE IF FunctionIsTrue THEN "hwc"
    ELSE "Unknown"

\* an integer in at least n digits, as strftime writes it
RECURSIVE ZeroPad(_, _)
ZeroPad(v, n) ==
    IF Len(ToString(v)) >= n THEN ToString(v) ELSE "0" \o ZeroPad(v, n - 1)

\* the clock counts the microseconds since 2024-01-01 12:00:00 and stays
\* within that hour: strftime('%Y%m%d-%H%M%S.%f')
Strftime(t) ==
    LET usec == t % 1000000
        sec  == (t \div 1000000) % 60
        min  == (t \div 60000000) % 60
    IN  "20240101-" \o "12" \o ZeroPad(min, 2) \o ZeroPad(sec, 2)
            \o "." \o ZeroPad(usec, 6)

\* temp_file_name(dir_name, base_name, ext) when the clock reads t
temp_file_name(dir_name, base_name, ext, t) ==
    LET dir == IF IsNone(dir_name) THEN os.home ELSE Val(dir_name)
    IN  dir \o "/" \o base_name \o "_" \o Strftime(t) \o "." \o ext

MaxTicks == 3
MaxNames == 3
StartTime == 59999998
Procs == {1, 2}
DirNames == {None, Some("/tmp")}
BaseNames == {".tmpfile", "data"}

InitSystem ==
    /\ os \in [host : Hosts, home : {"/home/sluys"}, cfg : {NoConfig}]
    /\ cnt = [calls |-> 0, host_queries |-> 0, home_queries |-> 0, cfg_reads |-> 0,
              objects |-> 0, sp_inits |-> 0]
    /\ last_env = None
    /\ sp_mod = [imported |-> FALSE, env |-> None]
    /\ hemel \in BOOLEAN
    /\ now = StartTime
    /\ sres = NoSysRes
    /\ InitFitIdle /\ InitPlot /\ TextIdle /\ HtmlIdle

\* a microsecond passes
Tick ==
    /\ now < StartTime + MaxTicks
    /\ now' = now + 1
    /\ UNCHANGED <<hemel, sres, fitvars, envvars, plotvars, textvars, htmlvars>>

\* the process calls where_am_i()
CallWhereAmI ==
    /\ IsNone(sres.where)
    /\ sres' = [sres EXCEPT !.where = Some(where_am_i)]
    /\ UNCHANGED <<now, hemel, fitvars, envvars, plotvars, textvars, htmlvars>>

\* process p calls temp_file_name: the clock is read once.  Two calls of one
\* process are at least a microsecond apart; two processes run side by side.
CallTempFileName ==
    /\ Len(sres.names) < MaxNames
    /\ \E p \in Procs, dir_name \in DirNames, base_name \in BaseNames :
         /\ \A k \in 1..Len(sres.names) : sres.names[k].proc = p => sres.names[k].at < now
         /\ sres' = [sres EXCEPT !.names = Append(@,
                        [proc |-> p, at |-> now,
                         args |-> <<dir_name, base_name, "tmp">>,
                         name |-> temp_file_name(dir_name, base_name, "tmp", now)])]
    /\ UNCHANGED <<now, hemel, fitvars, envvars, plotvars, textvars, htmlvars>>

NextSystem ==
    \/ Tick
    \/ CallWhereAmI
    \/ CallTempFileName

SpecSystem == InitSystem /\ [][NextSystem]_vars

\* C14: where_am_i returns 'think' exactly on think, else 'zotac' on zotac,
\* else 'hwc' where on_hwc() holds, and 'Unknown' on every other host.
C14_WhereAmI ==
    ~IsNone(sres.where) =>
        Val(sres.where) = (IF on_think THEN "think"
                           ELSE IF on_zotac THEN "zotac"
                           ELSE IF on_hwc THEN "hwc"
                           ELSE "Unknown")

\* C16: two calls of temp_file_name with the same arguments, in one process
\* or in two, return different names.
C16_NamesDiffer ==
    \A i, j \in 1..Len(sres.names) :
        (i < j /\ sres.names[i].args = sres.names[j].args) =>
            sres.names[i].name # sres.names[j].name

----------------------------------------------------------------------------
(* html.py *)

\* fd.write(line): the line is added to an open file; on a closed file the
\* write raises ValueError and the file is left as it is
WriteRaises(f) == f.state # "open"

Write(f, line) ==
    IF WriteRaises(f) THEN f
    ELSE [f EXCEPT !.lines = Append(@, line), !.ops = Append(@, "write")]

RECURSIVE WriteAll(_, _)
WriteAll(f, lines) ==
    IF lines = <<>> \/ WriteRaises(f) THEN f
    ELSE WriteAll(Write(f, Head(lines)), Tail(lines))

\* fd.close()
Close(f) == [f EXCEPT !.state = "closed", !.ops = Append(@, "close")]

\* _dt.date.today().year
CurrentYear == 2024

RECURSIVE MetaLines(_)
MetaLines(meta_prop) ==
    IF meta_prop = <<>> THEN <<>>
    ELSE <<"    <meta property=\"" \o Head(meta_prop).key \o "\" content=\""
             \o Head(meta_prop).value \o "\">\n">> \o MetaLines(Tail(meta_prop))

\* start_html_file: the lines written after the file is opened
StartLines(a) ==
    <<"<!DOCTYPE HTML>\n",
      "<html lang=\"" \o a.lang \o "\">\n",
      "  <head>\n",
      "    <meta http-equiv=\"Content-Type\" content=\"text/html;charset=utf-8\">\n">>
    \o (IF IsNone(a.refresh) THEN <<>>
        ELSE <<"    <meta http-equiv=\"Refresh\" content=\""
                 \o ToString(Val(a.refresh) * 60) \o "\">\n">>)
    \o (IF IsNone(a.icon) THEN <<>>
        ELSE <<"    <link rel=\"icon\" href=\"" \o Val(a.icon) \o "\">\n">>)
    \o (IF IsNone(a.css) THEN <<>>
        ELSE <<"    <link rel=\"stylesheet\" type=\"text/css\" href=\"" \o Val(a.css) \o "\">\n">>)
    \o <<"    <title>" \o a.title \o "</title>\n">>
    \o (IF a.author = "" THEN <<>>
        ELSE IF IsNone(a.copyr_start) \/ a.copyr_start = Some(CurrentYear)
        THEN <<"    <meta name=\"author\" content=\"(c) " \o ToString(CurrentYear)
                 \o " " \o a.author \o "\">\n">>
        ELSE <<"    <meta name=\"author\" content=\"(c) " \o ToString(Val(a.copyr_start))
                 \o "-" \o ToString(CurrentYear) \o " " \o a.author \o "\">\n">>)
    \o (IF IsNone(a.meta_prop) THEN <<>> ELSE MetaLines(Val(a.meta_prop)))
    \o <<"  </head>\n", "  \n", "  <body>\n">>

\* close_html_file: the StatCounter code block
StatCounterLines(sc_id, sc_secr, sc_name) ==
    <<IF IsNone(sc_name) THEN "    <!-- Start of StatCounter Code -->\n"
      ELSE "    <!-- Start of StatCounter Code for " \o Val(sc_name) \o " -->\n",
      "    <script type=\"text/javascript\">\n",
      "    var sc_project=" \o ToString(sc_id) \o "; \n",
      "    var sc_invisible=1; \n",
      "    var sc_security=\"" \o sc_secr \o "\"; \n",
      "    var scJsHost = ((\"https:\" == document.location.protocol) ?\n",
      "    \"https://secure.\" : \"http://www.\");\n",
      "    document.write(\"<sc\"+\"ript type=text/javascript src=\" +\n",
      "    scJsHost+\n",
      "    \"statcounter.com/counter/counter.js></\"+\"script>\");\n",
      "    </script>\n",
      "    <noscript><div class=\"statcounter\"><a title=\"web analytics\"\n",
      "    href=\"http://statcounter.com/\" target=\"_blank\"><img\n",
      "    class=\"statcounter\"\n",
      "    src=\"//c.statcounter.com/" \o ToString(sc_id) \o "/0/" \o sc_secr \o "/1/\" alt=\"web\n",
      "    analytics\"></a></div></noscript>\n",
      IF IsNone(sc_name) THEN "    <!-- End of StatCounter Code -->\n"
      ELSE "    <!-- End of StatCounter Code for " \o Val(sc_name) \o " -->\n",
      "    \n",
      "    \n">>

\* close_html_file: the lines that close the body and the page
EndLines_nobody == <<"</html>\n">>

EndLines == <<"  </body>\n", "</html>\n">>

\* close_html_file: the lines written before the file is closed
CloseLines(sc_id, sc_secr, sc_name) ==
    <<"    \n", "    \n">>
    \o (IF ~IsNone(sc_id) /\ ~IsNone(sc_secr)
        THEN StatCounterLines(Val(sc_id), Val(sc_secr), sc_name) ELSE <<>>)
    \o EndLines

\* start_html_file(file_name, lang, ...): returns the open file
start_html_file(a) ==
    WriteAll([state |-> "open", lines |-> <<>>, ops |-> <<"open">>], StartLines(a))

\* close_html_file(fd, sc_id, sc_secr, sc_name): the lines are written and
\* the file is closed; on a file that is closed already the first write raises
close_html_file(f, sc_id, sc_secr, sc_name) ==
    IF WriteRaises(f) THEN [file |-> f, exc |-> Some("ValueError")]
    ELSE [file |-> Close(WriteAll(f, CloseLines(sc_id, sc_secr, sc_name))), exc |-> None]

MaxBody == 2

Langs == {"en", "nl"}
PageTitles == {"Page title", "The <body> of work"}
MetaProps == {None, Some(<<[key |-> "og:type", value |-> "website"]>>)}
StartArgs ==
    [lang : Langs, title : PageTitles, icon : {None, Some("icon.png")},
     css : {None}, author : {"", "Marc van der Sluys"},
     copyr_start : {None, Some(2020), Some(2024)}, refresh : {None, Some(5)},
     meta_prop : MetaProps]
BodyLines == {"    <h1>Hello</h1>\n", "    <p>Some text.</p>\n"}

InitHtml ==
    /\ HtmlIdle
    /\ InitFitIdle /\ EnvIdle /\ InitPlot
    /\ TextIdle /\ SysIdle

\* f = start_html_file(...)
StartHtmlFile ==
    /\ fd.state = "none"
    /\ \E a \in StartArgs :
         /\ fd' = start_html_file(a)
         /\ hres' = [fn |-> "start_html_file", outcome |-> "return"]
    /\ UNCHANGED <<fitvars, envvars, plotvars, textvars, sysvars>>

\* the caller writes a line of the body: f.write(line)
WriteBody ==
    /\ fd.state \in {"open", "closed"}
    /\ Cardinality({k \in 1..Len(fd.lines) : fd.lines[k] \in BodyLines}) < MaxBody
    /\ \E line \in BodyLines :
         /\ fd' = Write(fd, line)
         /\ hres' = [fn |-> "write",
                     outcome |-> IF WriteRaises(fd) THEN "ValueError" ELSE "return"]
    /\ UNCHANGED <<fitvars, envvars, plotvars, textvars, sysvars>>

\* close_html_file(f, sc_id, sc_secr, sc_name)
CloseHtmlFile ==
    /\ fd.state \in {"open", "closed"}
    /\ \E sc_id \in {None, Some(123)}, sc_secr \in {None, Some("abc")},
          sc_name \in {None, Some("site")} :
         LET r == close_html_file(fd, sc_id, sc_secr, sc_name) IN
         /\ fd' = r.file
         /\ hres' = [fn |-> "close_html_file",
                     outcome |-> IF IsNone(r.exc) THEN "return" ELSE Val(r.exc)]
    /\ UNCHANGED <<fitvars, envvars, plotvars, textvars, sysvars>>

NextHtml ==
    \/ StartHtmlFile
    \/ WriteBody
    \/ CloseHtmlFile

SpecHtml == InitHtml /\ [][NextHtml]_vars

\* the lines of the file that are the given tag line; the opening html tag
\* carries the language
IsHtmlOpen(line) == Len(line) > 6 /\ SubSeq(line, 1, 6) = "<html "
Places(P(_)) == {k \in 1..Len(fd.lines) : P(fd.lines[k])}
IsDoctype(line) == line = "<!DOCTYPE HTML>\n"
IsHeadOpen(line) == line = "  <head>\n"
IsHeadClose(line) == line = "  </head>\n"
IsBodyOpen(line) == line = "  <body>\n"
IsBodyClose(line) == line = "  </body>\n"
IsHtmlClose(line) == line = "</html>\n"

\* exactly one place in each of the sets, and the places ascend
OnceInOrder(sets) ==
    /\ \A n \in 1..Len(sets) : Cardinality(sets[n]) = 1
    /\ \A n \in 1..(Len(sets) - 1) :
           \A a \in sets[n], b \in sets[n + 1] : a < b

\* C15: once close_html_file has closed the file, its content holds the
\* DOCTYPE line, <html>, <head>, </head>, <body>, </body> and </html> in this
\* order, each once, </html> being the last line, and no write follows the
\* close.
C15_PageWellFormed ==
    fd.state = "closed" =>
        /\ OnceInOrder(<<Places(IsDoctype), Places(IsHtmlOpen), Places(IsHeadOpen),
                         Places(IsHeadClose), Places(IsBodyOpen), Places(IsBodyClose),
                         Places(IsHtmlClose)>>)
        /\ IsHtmlClose(fd.lines[Len(fd.lines)])
        /\ \A j, k \in 1..Len(fd.ops) :
               (fd.ops[j] = "close" /\ j < k) => fd.ops[k] # "write"
        /\ fd.ops[Len(fd.ops)] = "close"

\* a page with two lines of body and the StatCounter block has been closed,
\* and a second close_html_file on it has raised
C15_Witness ==
    /\ fd.state = "closed"
    /\ hres = [fn |-> "close_html_file", outcome |-> "ValueError"]
    /\ Cardinality({k \in 1..Len(fd.lines) : fd.lines[k] \in BodyLines}) = 2
    /\ \E k \in 1..Len(fd.lines) : fd.lines[k] = "    var sc_project=123; \n"

====
